---- MODULE Spec2Model ----
(***************************************************************************)
(* zipflow: the streaming archive pipeline (Archiver.archiveFiles), the    *)
(* archive stream it drives (createArchiveStream) and the two storage      *)
(* providers, as one state machine.                                        *)
(*                                                                         *)
(* Strings whose structure matters (keys, prefixes) are sequences of       *)
(* one-character strings, so that startsWith / endsWith are computed.      *)
(*                                                                         *)
(* The run executes on the Node.js event loop.  Two runtime rules decide   *)
(* where an error goes:                                                    *)
(*   - an exception thrown by an event listener propagates out of the      *)
(*     emit() call of the emitter; for the archive stream that call sits   *)
(*     in an I/O callback, so the exception is an uncaught exception of    *)
(*     the process and not a rejection of archiveFiles' promise;           *)
(*   - a promise that rejects while no handler is attached to it is an     *)
(*     unhandled rejection, which ends the process (the repository         *)
(*     installs no handler).                                               *)
(* Both are modelled by the outcome "crashed".                             *)
(***************************************************************************)
EXTENDS Integers, Sequences, FiniteSets, TLC

\* ------------------------------------------------------------------ bounds
\* largest number of objects in the source backend
MaxObjects == 2
\* chunks the PassThrough between encoder and upload buffers before the
\* encoder is suspended (its highWaterMark, counted in chunks)
PtCap == 1
\* DEFAULT_UPLOAD_QUEUE_SIZE
DEFAULT_UPLOAD_QUEUE_SIZE == 1

\* number of 'warning' events of code ENOENT the encoder emits at most
MaxWarnings == 1
\* longest part of a URI after its scheme, in the URI specification
MaxRest == 4
\* most path segments given to joinUri
MaxSegments == 2
\* most provider method calls in the provider specification
MaxCalls == 2
\* most getS3Client / resetS3Client calls in the client specification
MaxClientCalls == 4
\* most files of a container in the listing specification
MaxFiles == 3
\* largest maxKeys given to listObjects in the listing specification
MaxMaxKeys == 2
\* most keys the object store returns in one ListObjectsV2 response,
\* scaled down from 1000
S3PageSize == 2

\* ------------------------------------------------------------------ strings
\* String.prototype.startsWith
StartsWith(s, p) ==
  /\ Len(p) <= Len(s)
  /\ SubSeq(s, 1, Len(p)) = p

\* key.endsWith('/')
EndsWithSlash(s) ==
  /\ Len(s) > 0
  /\ s[Len(s)] = "/"

\* the keys a source backend may hold
KeyUniverse ==
  { <<"a">>, <<"p", "/">>, <<"p", "/", "a">>, <<"p", "/", "b">> }

\* sequences over S of length 0..n
SeqUpTo(S, n) == UNION { [1..k -> S] : k \in 0..n }

\* no element occurs twice
IsInjective(s) == \A i, j \in 1..Len(s) : s[i] = s[j] => i = j

\* ------------------------------------------------------------------ URIs
S3Scheme == << "s", "3", ":", "/", "/" >>

FileScheme == << "f", "i", "l", "e", ":", "/", "/" >>

\* String.prototype.slice(from) with a 0-based from
Slice(s, from) == SubSeq(s, from + 1, Len(s))

\* String.prototype.indexOf('/'), 0-based, -1 when absent
IndexOfSlash(s) ==
  IF \E i \in 1..Len(s) : s[i] = "/"
    THEN (CHOOSE i \in 1..Len(s) :
            s[i] = "/" /\ \A j \in 1..(i - 1) : s[j] # "/") - 1
    ELSE -1

\* String.prototype.lastIndexOf('/'), 0-based, -1 when absent
LastIndexOfSlash(s) ==
  IF \E i \in 1..Len(s) : s[i] = "/"
    THEN (CHOOSE i \in 1..Len(s) :
            s[i] = "/" /\ \A j \in (i + 1)..Len(s) : s[j] # "/") - 1
    ELSE -1

\* parseUri throws ConfigurationError
ParseError ==
  [ok |-> FALSE, scheme |-> "none", hasBucket |-> FALSE, bucket |-> <<>>,
   path |-> <<>>, fullPath |-> <<>>]

\* parseUri returns a ParsedUri
Parsed(scheme, hasBucket, bucket, path, uri) ==
  [ok |-> TRUE, scheme |-> scheme, hasBucket |-> hasBucket,
   bucket |-> bucket, path |-> path, fullPath |-> uri]

\* variant: the path keeps the slash that ends the bucket
ParseUriKeepsSlash(uri) ==
  IF uri = <<>> THEN ParseError
  ELSE IF StartsWith(uri, S3Scheme) THEN
    LET withoutScheme == Slice(uri, 5)
        firstSlash == IndexOfSlash(withoutScheme)
    IN IF firstSlash = -1
         THEN Parsed("s3", TRUE, withoutScheme, <<>>, uri)
         ELSE LET bucket == SubSeq(withoutScheme, 1, firstSlash)
                  path == Slice(withoutScheme, firstSlash)
              IN IF bucket = <<>>
                   THEN ParseError
                   ELSE Parsed("s3", TRUE, bucket, path, uri)
  ELSE IF StartsWith(uri, FileScheme) THEN
    LET path == Slice(uri, 7)
    IN IF path = <<>>
         THEN ParseError
         ELSE Parsed("file", FALSE, <<>>, path, uri)
  ELSE ParseError

\* ------------------------------------------------------------------ state

\* parseUri
ParseUri(uri) ==
  IF uri = <<>> THEN ParseError
  ELSE IF StartsWith(uri, S3Scheme) THEN
    LET withoutScheme == Slice(uri, 5)
        firstSlash == IndexOfSlash(withoutScheme)
    IN IF firstSlash = -1
         THEN Parsed("s3", TRUE, withoutScheme, <<>>, uri)
         ELSE LET bucket == SubSeq(withoutScheme, 1, firstSlash)
                  path == Slice(withoutScheme, firstSlash + 1)
              IN IF bucket = <<>>
                   THEN ParseError
                   ELSE Parsed("s3", TRUE, bucket, path, uri)
  ELSE IF StartsWith(uri, FileScheme) THEN
    LET path == Slice(uri, 7)
    IN IF path = <<>>
         THEN ParseError
         ELSE Parsed("file", FALSE, <<>>, path, uri)
  ELSE ParseError

\* ------------------------------------------------------------------ state

\* a function of the module threw ConfigurationError
Thrown == [ok |-> FALSE, value |-> <<>>]

\* a function of the module returned the string v
Returned(v) == [ok |-> TRUE, value |-> v]

\* variant: the directory stops before the last slash
GetUriDirectoryNoSlash(uri) ==
  LET parsed == ParseUri(uri)
      lastSlash == LastIndexOfSlash(parsed.path)
  IN IF ~parsed.ok THEN Thrown
     ELSE IF lastSlash = -1 THEN Returned(<<>>)
     ELSE Returned(SubSeq(parsed.path, 1, lastSlash))

\* getUriDirectory: parsed.path.slice(0, lastSlash + 1), '' without a slash
GetUriDirectory(uri) ==
  LET parsed == ParseUri(uri)
      lastSlash == LastIndexOfSlash(parsed.path)
  IN IF ~parsed.ok THEN Thrown
     ELSE IF lastSlash = -1 THEN Returned(<<>>)
     ELSE Returned(SubSeq(parsed.path, 1, lastSlash + 1))

\* getUriFilename: parsed.path.slice(lastSlash + 1), the path without a slash
GetUriFilename(uri) ==
  LET parsed == ParseUri(uri)
      lastSlash == LastIndexOfSlash(parsed.path)
  IN IF ~parsed.ok THEN Thrown
     ELSE IF lastSlash = -1 THEN Returned(parsed.path)
     ELSE Returned(Slice(parsed.path, lastSlash + 1))

\* Array.prototype.filter(Boolean) on strings: the non-empty ones
FilterBoolean(strs) == SelectSeq(strs, LAMBDA p : p # <<>>)

RECURSIVE JoinWithSlash(_)
\* Array.prototype.join('/')
JoinWithSlash(strs) ==
  IF strs = <<>> THEN <<>>
  ELSE IF Len(strs) = 1 THEN strs[1]
  ELSE strs[1] \o <<"/">> \o JoinWithSlash(Tail(strs))

RECURSIVE CollapseSlashes(_)
\* String.prototype.replace(/\/+/g, '/')
CollapseSlashes(s) ==
  IF s = <<>> THEN <<>>
  ELSE IF Len(s) >= 2 /\ s[1] = "/" /\ s[2] = "/" THEN CollapseSlashes(Tail(s))
  ELSE <<s[1]>> \o CollapseSlashes(Tail(s))

\* joinedPath of joinUri
JoinedPath(parsed, paths) ==
  CollapseSlashes(JoinWithSlash(FilterBoolean(<<parsed.path>> \o paths)))

\* joinUri
JoinUri(base, paths) ==
  LET parsed == ParseUri(base)
  IN IF ~parsed.ok THEN Thrown
     ELSE IF parsed.scheme = "s3"
       THEN Returned(S3Scheme \o parsed.bucket \o <<"/">> \o JoinedPath(parsed, paths))
       ELSE Returned(FileScheme \o JoinedPath(parsed, paths))

VARIABLES
  sourceUri,   \* config.sourceUri
  targetUri,   \* config.targetUri
  source,      \* parseUri(sourceUri)
  tgt,         \* parseUri(targetUri)
  upArgs,      \* backend, container and key uploadObject was called with
  parts,       \* chunks the S3 upload holds in parts not yet sent
  store,       \* keys the source backend holds, in the order it lists them
  pc,          \* position of archiveFiles
  listed,      \* listObjects has resolved
  objects,     \* result of listObjects
  files,       \* objects that are files
  idx,         \* loop position in files (1-based)
  calls,       \* provider and encoder calls made by the run, in order
  sst,         \* per position of files: state of its source read stream
  entryNames,  \* names passed to archive.append, in order
  entryFile,   \* for each appended entry, its position in files
  encNext,     \* next appended entry the encoder will read
  arch,        \* archive stream: none, open, finalizing, ended
  warnings,    \* ENOENT warnings logged
  pt,          \* chunks buffered in the PassThrough (0 = central directory)
  up,          \* upload: none, starting, running, done, failed
  upData,      \* chunks the upload has consumed
  target,      \* object at the target key: [exists, entries, complete]
  outcome,     \* none, returned, rejected, crashed
  errKind,     \* error class of a rejected or crashed run
  result,      \* value archiveFiles returned
  uri,         \* URI specification: the string given to the URI functions
  uriCalled,   \* URI specification: functions that have been called on uri
  parsedUri,   \* result of parseUri(uri)
  directory,   \* result of getUriDirectory(uri)
  filename,    \* result of getUriFilename(uri)
  segments,    \* path segments given to joinUri
  joined,      \* result of joinUri(uri, ...segments)
  provider,    \* provider specification: "s3" or "file"
  provLog,     \* provider method calls made: method, backend outcome, result
  s3ClientInstance, \* the module variable: 0 for null, else a client's number
  clients,     \* the S3Client objects created so far: [config, destroyed]
  clientLog,   \* getS3Client / resetS3Client calls made, with what they returned
  env,         \* configuration specification: process.env
  overrides,   \* the overrides given to getConfigWithOverrides
  cfgCalled,   \* "none", "getConfig" or "getConfigWithOverrides"
  cfgResult,   \* what the called function returned or threw
  tree,        \* listing specification: file paths of the container, in
               \* the order the backend enumerates them
  listCall,    \* the listObjects call made: provider, prefix, maxKeys
  listResult,  \* what listObjects returned or threw
  hpc,         \* Lambda handler: off (archiveFiles called directly),
               \* archive, changed (the source changed after the run), done
  response     \* the ArchiveResponse the handler returned

vars ==
  << sourceUri, targetUri, source, tgt, upArgs, parts, store, pc, listed, objects, files, idx, calls, sst, entryNames,
     entryFile, encNext, arch, warnings, pt, up, upData, target, outcome,
     errKind, result, uri, uriCalled, parsedUri, directory, filename,
     segments, joined, provider, provLog, s3ClientInstance, clients,
     clientLog, env, overrides, cfgCalled, cfgResult, tree, listCall,
     listResult, hpc, response >>

\* the variables of archiveFiles
archiverVars ==
  << sourceUri, targetUri, source, tgt, upArgs, parts, store, pc, listed,
     objects, files, idx, calls, sst, entryNames, entryFile, encNext, arch,
     warnings, pt, up, upData, target, outcome, errKind, result, hpc,
     response >>

\* the variables of the Lambda handler
handlerVars == << hpc, response >>

\* what the handler leaves alone of the run of archiveFiles it awaited
finishedRun ==
  << sourceUri, targetUri, source, tgt, upArgs, parts, pc, listed, objects,
     files, idx, calls, sst, entryNames, entryFile, encNext, arch, warnings,
     pt, up, upData, target, outcome, errKind, result >>

\* the handler has not returned
NoResponse == [sent |-> FALSE, success |-> FALSE, fileCount |-> 0]

\* the variables of the URI specification
uriVars ==
  << uri, uriCalled, parsedUri, directory, filename, segments, joined >>

\* the variables of the provider specification
providerVars == << provider, provLog >>

\* the variables of the client specification
clientVars == << s3ClientInstance, clients, clientLog >>

\* the variables of the configuration specification
configVars == << env, overrides, cfgCalled, cfgResult >>

\* the variables of the listing specification
listVars == << tree, listCall, listResult >>

\* the variables archiveFiles leaves alone
outsideArchiver ==
  << uriVars, providerVars, clientVars, configVars, listVars, handlerVars >>

\* the variables the URI functions leave alone
outsideUri == << archiverVars, providerVars, clientVars, configVars, listVars >>

\* the variables the provider methods leave alone
outsideProvider == << archiverVars, uriVars, clientVars, configVars, listVars >>

\* the variables getS3Client and resetS3Client leave alone
outsideClient == << archiverVars, uriVars, providerVars, configVars, listVars >>

\* the variables getConfig and getConfigWithOverrides leave alone
outsideConfig == << archiverVars, uriVars, providerVars, clientVars, listVars >>

\* the variables listObjects leaves alone
outsideList == << archiverVars, uriVars, providerVars, clientVars, configVars >>

\* listObjects has not been called on its own
NoListCall == [provider |-> "none", prefix |-> <<>>, maxKeys |-> 0]

\* listObjects returned objs
Listed(objs) == [ok |-> TRUE, kind |-> "none", objects |-> objs]

\* listObjects threw an error of the class kind
ListThrown(kind) == [ok |-> FALSE, kind |-> kind, objects |-> <<>>]

ListIdle ==
  /\ tree = <<>>
  /\ listCall = NoListCall
  /\ listResult = ListThrown("none")

\* an object without fields
EmptyObject == [f \in {} |-> 0]

\* no configuration function has been called
ConfigIdle ==
  /\ env = EmptyObject
  /\ overrides = EmptyObject
  /\ cfgCalled = "none"
  /\ cfgResult = [ok |-> FALSE, kind |-> "none", config |-> EmptyObject]

\* the module of the S3 client has just been loaded
ClientIdle ==
  /\ s3ClientInstance = 0
  /\ clients = <<>>
  /\ clientLog = <<>>

\* no provider method has been called on its own
ProviderIdle ==
  /\ provider = "none"
  /\ provLog = <<>>

\* no URI function has been called
UriIdle ==
  /\ uri = <<>>
  /\ uriCalled = {}
  /\ parsedUri = ParseError
  /\ directory = Thrown
  /\ filename = Thrown
  /\ segments = <<>>
  /\ joined = Thrown

\* the source URIs of the model: s3://b, s3://b/p/, file://d, and three
\* that do not parse: '', s3:///k and x
SourceUris ==
  { S3Scheme \o <<"b">>,
    S3Scheme \o <<"b", "/", "p", "/">>,
    FileScheme \o <<"d">>,
    <<>>,
    S3Scheme \o <<"/", "k">>,
    <<"x">> }

\* the parsed source URIs of the model
SourceConfigs == { ParseUri(u) : u \in { v \in SourceUris : ParseUri(v).ok } }

\* key of the target object (target.path)
TargetKey == <<"o">>

NoTarget == [exists |-> FALSE, entries |-> <<>>, complete |-> FALSE]

\* the target URIs of the model: s3://b/o, file://o and the empty string
TargetUris ==
  { S3Scheme \o <<"b", "/">> \o TargetKey,
    FileScheme \o TargetKey,
    <<>> }

NoUpArgs == [backend |-> "none", container |-> <<>>, key |-> <<>>]

NoResult == [key |-> <<>>, signedUrl |-> FALSE]

\* ------------------------------------------------------------------ providers
\* S3StorageProvider.listObjects: the backend returns the keys that start
\* with Prefix; the provider maps each to a StorageObject
S3ListObjects(st, prefix) ==
  LET hit(k) == StartsWith(k, prefix)
      keys == SelectSeq(st, hit)
  IN [i \in 1..Len(keys) |-> [key |-> keys[i]]]

\* FilesystemStorageProvider.listObjects with prefix '': scan pushes the
\* entries that are files, keyed by their path relative to the container
FsListObjects(st) ==
  LET isFile(k) == ~EndsWithSlash(k)
      keys == SelectSeq(st, isFile)
  IN [i \in 1..Len(keys) |-> [key |-> keys[i]]]

\* error class a provider wraps backend failures in
StorageErr(scheme) ==
  IF scheme = "s3" THEN "S3OperationError" ELSE "StorageOperationError"

\* ------------------------------------------------------------------ archiveFiles
\* container and prefix derived from the parsed source URI
SourcePrefix(src) ==
  IF src.scheme = "s3" THEN src.path ELSE <<>>

ProviderList(src, st) ==
  IF src.scheme = "s3"
    THEN S3ListObjects(st, SourcePrefix(src))
    ELSE FsListObjects(st)

\* variant: directory markers are not filtered out
FilterFilesKeepDirs(objs) ==
  LET keep(o) == o.key # <<>>
  IN SelectSeq(objs, keep)

\* variant: the files are taken in reverse listing order
FilterFilesReversed(objs) ==
  LET keep(o) == o.key # <<>> /\ ~EndsWithSlash(o.key)
      fs == SelectSeq(objs, keep)
  IN [i \in 1..Len(fs) |-> fs[Len(fs) + 1 - i]]

\* createStorageProvider: the provider is chosen by the source scheme
ProviderOf(src) == src.scheme

\* variant: the target bucket is used whatever the source scheme is
TargetContainerFromTarget(src, t) == t.bucket

\* targetContainer: target.bucket || '' for an s3 source, '' otherwise
TargetContainer(src, t) ==
  IF src.scheme = "s3" THEN t.bucket ELSE <<>>

\* variant: the target URI is not parsed before the listing
UrisParseSourceOnly(s, t) == ParseUri(s).ok

\* both parseUri calls at the head of archiveFiles return
UrisParse(s, t) == ParseUri(s).ok /\ ParseUri(t).ok

\* queueSize the S3 Upload is created with
UploadQueueSize == DEFAULT_UPLOAD_QUEUE_SIZE

\* variant: the encoder output is written without regard to backpressure
PipeIgnoresBackpressure(buf) == TRUE

\* archive.pipe(passThrough): the pipe writes while the PassThrough has room
PipeHasRoom(buf) == Len(buf) < PtCap

\* objects.filter((obj) => obj.key && !obj.key.endsWith('/'))
FilterFiles(objs) ==
  LET keep(o) == o.key # <<>> /\ ~EndsWithSlash(o.key)
  IN SelectSeq(objs, keep)

\* the name an entry is appended under: { name: file.key }
EntryName(src, key) == key

\* variant: a failed open leaves the loop
AfterOpenFailureBreak(i, n) == n + 1

\* the loop position after getObjectStream threw for position i
AfterOpenFailure(i, n) == i + 1

\* variant: the upload promise is not awaited
UploadNotAwaited(u) == TRUE

\* `await uploadPromise` resumes once the upload has settled successfully
UploadAwaited(u) == u = "done"

Init ==
  /\ sourceUri \in SourceUris
  /\ targetUri \in TargetUris
  /\ source = ParseError
  /\ tgt = ParseError
  /\ upArgs = NoUpArgs
  /\ parts = 0
  /\ store \in SeqUpTo(KeyUniverse, MaxObjects)
  /\ ParseUri(sourceUri).scheme = "file" => IsInjective(store)
  /\ ~ParseUri(sourceUri).ok => store = <<>>
  /\ pc = "parse"
  /\ listed = FALSE
  /\ objects = <<>>
  /\ files = <<>>
  /\ idx = 1
  /\ calls = <<>>
  /\ sst = <<>>
  /\ entryNames = <<>>
  /\ entryFile = <<>>
  /\ encNext = 1
  /\ arch = "none"
  /\ warnings = 0
  /\ pt = <<>>
  /\ up = "none"
  /\ upData = <<>>
  /\ target = NoTarget
  /\ outcome = "none"
  /\ errKind = "none"
  /\ result = NoResult
  /\ hpc \in {"off", "archive"}
  /\ hpc = "archive" =>
       StartsWith(sourceUri, S3Scheme) /\ StartsWith(targetUri, S3Scheme)
  /\ response = NoResponse
  /\ UriIdle
  /\ ProviderIdle
  /\ ClientIdle
  /\ ConfigIdle
  /\ ListIdle

\* archiveFiles rejects: the async function throws
Reject(kind) ==
  /\ outcome' = "rejected"
  /\ errKind' = kind
  /\ pc' = "done"

\* an exception outside archiveFiles' promise ends the process
Crash(kind) ==
  /\ outcome' = "crashed"
  /\ errKind' = kind
  /\ pc' = "done"

\* parseUri(sourceUri), parseUri(targetUri): a throw rejects archiveFiles
ParseUris ==
  /\ outcome = "none"
  /\ pc = "parse"
  /\ hpc # "done"
  /\ source' = ParseUri(sourceUri)
  /\ tgt' = IF source'.ok THEN ParseUri(targetUri) ELSE tgt
  /\ IF UrisParse(sourceUri, targetUri)
       THEN /\ pc' = "list"
            /\ UNCHANGED << outcome, errKind >>
       ELSE Reject("ConfigurationError")
  /\ UNCHANGED outsideArchiver
  /\ UNCHANGED << sourceUri, targetUri, upArgs, parts, store, listed,
                  objects, files, idx, calls, sst, entryNames, entryFile,
                  encNext, arch, warnings, pt, up, upData, target, result >>

\* listObjects resolves; the two emptiness checks; createArchiveStream and
\* archive.pipe(passThrough)
ListObjectsOk ==
  /\ outcome = "none"
  /\ pc = "list"
  /\ calls' = Append(calls, "listObjects")
  /\ listed' = TRUE
  /\ objects' = ProviderList(source, store)
  /\ IF objects' = <<>>
       THEN /\ Reject("ArchiveError")
            /\ UNCHANGED << files, sst, arch >>
       ELSE /\ files' = FilterFiles(objects')
            /\ IF files' = <<>>
                 THEN /\ Reject("ArchiveError")
                      /\ UNCHANGED << sst, arch >>
                 ELSE /\ sst' = [i \in 1..Len(files') |-> "unopened"]
                      /\ arch' = "open"
                      /\ pc' = "createContainer"
                      /\ UNCHANGED << outcome, errKind >>
  /\ UNCHANGED outsideArchiver
  /\ UNCHANGED << sourceUri, targetUri, source, tgt, upArgs, parts, store, idx, entryNames, entryFile, encNext,
                  warnings, pt, up, upData, target, result >>

\* listObjects rejects with the provider's error
ListObjectsFail ==
  /\ outcome = "none"
  /\ pc = "list"
  /\ calls' = Append(calls, "listObjects")
  /\ Reject(StorageErr(source.scheme))
  /\ UNCHANGED outsideArchiver
  /\ UNCHANGED << sourceUri, targetUri, source, tgt, upArgs, parts, store, listed, objects, files, idx, sst, entryNames,
                  entryFile, encNext, arch, warnings, pt, up, upData, target,
                  result >>

\* variant: createContainer resolves and the upload is not started
CreateContainerOkNoUpload ==
  /\ outcome = "none"
  /\ pc = "createContainer"
  /\ calls' = Append(calls, "createContainer")
  /\ pc' = "loop"
  /\ UNCHANGED outsideArchiver
  /\ UNCHANGED << sourceUri, targetUri, source, tgt, upArgs, parts, store,
                  listed, objects, files, idx, sst, entryNames, entryFile,
                  encNext, arch, warnings, pt, up, upData, target, outcome,
                  errKind, result >>

\* createContainer resolves, then uploadObject is called and not awaited
CreateContainerOk ==
  /\ outcome = "none"
  /\ pc = "createContainer"
  /\ calls' = calls \o << "createContainer", "uploadObject" >>
  /\ up' = "starting"
  /\ upArgs' = [backend |-> ProviderOf(source),
                container |-> TargetContainer(source, tgt),
                key |-> tgt.path]
  /\ pc' = "loop"
  /\ UNCHANGED outsideArchiver
  /\ UNCHANGED << sourceUri, targetUri, source, tgt, parts, store, listed, objects, files, idx, sst, entryNames,
                  entryFile, encNext, arch, warnings, pt, upData, target,
                  outcome, errKind, result >>

\* createContainer rejects (mkdir fails); for S3 it is a no-op that cannot
CreateContainerFail ==
  /\ outcome = "none"
  /\ pc = "createContainer"
  /\ source.scheme = "file"
  /\ calls' = Append(calls, "createContainer")
  /\ Reject(StorageErr(source.scheme))
  /\ UNCHANGED outsideArchiver
  /\ UNCHANGED << sourceUri, targetUri, source, tgt, upArgs, parts, store, listed, objects, files, idx, sst, entryNames,
                  entryFile, encNext, arch, warnings, pt, up, upData, target,
                  result >>

\* variant: the loop is left after its first pass
LoopPcEarly(i) == "finalize"

\* position after the loop body ran for idx
LoopPc(i) == IF i > Len(files) THEN "finalize" ELSE "loop"

\* getObjectStream resolves and the stream is appended to the archive
GetObjectStreamOk ==
  /\ outcome = "none"
  /\ pc = "loop"
  /\ idx <= Len(files)
  /\ calls' = calls \o << "getObjectStream", "append" >>
  /\ sst' = [sst EXCEPT ![idx] = "open"]
  /\ entryNames' = Append(entryNames, EntryName(source, files[idx].key))
  /\ entryFile' = Append(entryFile, idx)
  /\ idx' = idx + 1
  /\ pc' = LoopPc(idx')
  /\ UNCHANGED outsideArchiver
  /\ UNCHANGED << sourceUri, targetUri, source, tgt, upArgs, parts, store, listed, objects, files, encNext, arch, warnings, pt,
                  up, upData, target, outcome, errKind, result >>

\* getObjectStream throws; the catch logs and the loop continues
GetObjectStreamFail ==
  /\ outcome = "none"
  /\ pc = "loop"
  /\ idx <= Len(files)
  /\ calls' = Append(calls, "getObjectStream")
  /\ sst' = [sst EXCEPT ![idx] = "openFailed"]
  /\ idx' = AfterOpenFailure(idx, Len(files))
  /\ pc' = LoopPc(idx')
  /\ UNCHANGED outsideArchiver
  /\ UNCHANGED << sourceUri, targetUri, source, tgt, upArgs, parts, store, listed, objects, files, entryNames, entryFile,
                  encNext, arch, warnings, pt, up, upData, target, outcome,
                  errKind, result >>

\* archive.finalize() is called; the returned promise is awaited
FinalizeCall ==
  /\ outcome = "none"
  /\ pc = "finalize"
  /\ calls' = Append(calls, "finalize")
  /\ arch' = "finalizing"
  /\ pc' = "awaitFinalize"
  /\ UNCHANGED outsideArchiver
  /\ UNCHANGED << sourceUri, targetUri, source, tgt, upArgs, parts, store, listed, objects, files, idx, sst, entryNames,
                  entryFile, encNext, warnings, pt, up, upData, target,
                  outcome, errKind, result >>

\* the finalize promise resolves when the archive's readable side ended
FinalizeResolve ==
  /\ outcome = "none"
  /\ pc = "awaitFinalize"
  /\ arch = "ended"
  /\ pc' = "awaitUpload"
  /\ UNCHANGED outsideArchiver
  /\ UNCHANGED << sourceUri, targetUri, source, tgt, upArgs, parts, store, listed, objects, files, idx, calls, sst, entryNames,
                  entryFile, encNext, arch, warnings, pt, up, upData, target,
                  outcome, errKind, result >>

\* ------------------------------------------------------------------ encoder
\* archive.on('error'): the listener throws ArchiveError inside emit()
ArchiveOnError == Crash("ArchiveError")

\* archive.on('warning'): ENOENT is logged, anything else is thrown
ArchiveOnWarning(code) ==
  IF code = "ENOENT"
    THEN /\ warnings' = warnings + 1
         /\ UNCHANGED << pc, outcome, errKind >>
    ELSE /\ Crash("ArchiveError")
         /\ UNCHANGED warnings

\* the archive has entries left to read, or its directory left to write
ArchiveActive == arch \in {"open", "finalizing"}

\* the encoder reads the next queued entry's stream to its end and writes
\* the entry to its output, which the pipe moves into the PassThrough
EncodeEntry ==
  /\ outcome = "none"
  /\ ArchiveActive
  /\ encNext <= Len(entryNames)
  /\ PipeHasRoom(pt)
  /\ up \in {"starting", "running"}
  /\ pt' = Append(pt, encNext)
  /\ sst' = [sst EXCEPT ![entryFile[encNext]] = "consumed"]
  /\ encNext' = encNext + 1
  /\ UNCHANGED outsideArchiver
  /\ UNCHANGED << sourceUri, targetUri, source, tgt, upArgs, parts, store, pc, listed, objects, files, idx, calls, entryNames,
                  entryFile, arch, warnings, upData, up, target, outcome,
                  errKind, result >>

\* the stream of the entry being read emits 'error': the encoder reports
\* it with an 'error' event of the archive
StreamReadError ==
  /\ outcome = "none"
  /\ ArchiveActive
  /\ encNext <= Len(entryNames)
  /\ sst' = [sst EXCEPT ![entryFile[encNext]] = "errored"]
  /\ ArchiveOnError
  /\ UNCHANGED outsideArchiver
  /\ UNCHANGED << sourceUri, targetUri, source, tgt, upArgs, parts, store, listed, objects, files, idx, calls, entryNames,
                  entryFile, encNext, arch, warnings, pt, up, upData, target,
                  result >>

\* the codec fails (compression, write to its output): 'error' event
EncoderError ==
  /\ outcome = "none"
  /\ ArchiveActive
  /\ ArchiveOnError
  /\ UNCHANGED outsideArchiver
  /\ UNCHANGED << sourceUri, targetUri, source, tgt, upArgs, parts, store, listed, objects, files, idx, calls, sst, entryNames,
                  entryFile, encNext, arch, warnings, pt, up, upData, target,
                  result >>

\* the archive emits 'warning'
EncoderWarning ==
  /\ outcome = "none"
  /\ ArchiveActive
  /\ warnings < MaxWarnings
  /\ \E code \in {"ENOENT", "OTHER"} : ArchiveOnWarning(code)
  /\ UNCHANGED outsideArchiver
  /\ UNCHANGED << sourceUri, targetUri, source, tgt, upArgs, parts, store, listed, objects, files, idx, calls, sst, entryNames,
                  entryFile, encNext, arch, pt, up, upData, target, result >>

\* after finalize() and the last entry, the encoder writes the central
\* directory and ends its output
EncoderFinish ==
  /\ outcome = "none"
  /\ arch = "finalizing"
  /\ encNext > Len(entryNames)
  /\ PipeHasRoom(pt)
  /\ up \in {"starting", "running"}
  /\ pt' = Append(pt, 0)
  /\ arch' = "ended"
  /\ UNCHANGED outsideArchiver
  /\ UNCHANGED << sourceUri, targetUri, source, tgt, upArgs, parts, store, pc, listed, objects, files, idx, calls, sst,
                  entryNames, entryFile, encNext, warnings, up, upData,
                  target, outcome, errKind, result >>

\* ------------------------------------------------------------------ upload
\* entry names held by a sequence of archive chunks
ChunkNames(data) ==
  LET isEntry(c) == c # 0
      es == SelectSeq(data, isEntry)
  IN [i \in 1..Len(es) |-> entryNames[es[i]]]

\* uploadObject begins: the filesystem provider creates the target file
\* (mkdir, createWriteStream); the S3 provider starts reading for parts
UploadOpen ==
  /\ outcome = "none"
  /\ up = "starting"
  /\ upArgs.backend = "s3" => upArgs.container # <<>>
  /\ up' = "running"
  /\ target' = IF upArgs.backend = "file"
                 THEN [exists |-> TRUE, entries |-> <<>>, complete |-> FALSE]
                 ELSE target
  /\ UNCHANGED outsideArchiver
  /\ UNCHANGED << sourceUri, targetUri, source, tgt, upArgs, parts, store, pc, listed, objects, files, idx, calls, sst,
                  entryNames, entryFile, encNext, arch, warnings, pt, upData,
                  outcome, errKind, result >>

\* the upload takes a chunk from the PassThrough; the filesystem provider
\* writes it to the target file, the S3 provider keeps it in a part
UploadConsume ==
  /\ outcome = "none"
  /\ up = "running"
  /\ pt # <<>>
  /\ upArgs.backend = "s3" => parts < UploadQueueSize
  /\ parts' = IF upArgs.backend = "s3" THEN parts + 1 ELSE parts
  /\ upData' = Append(upData, Head(pt))
  /\ pt' = Tail(pt)
  /\ target' = IF upArgs.backend = "file"
                 THEN [target EXCEPT !.entries = ChunkNames(upData')]
                 ELSE target
  /\ UNCHANGED outsideArchiver
  /\ UNCHANGED << sourceUri, targetUri, source, tgt, upArgs, store, pc, listed, objects, files, idx, calls, sst,
                  entryNames, entryFile, encNext, arch, warnings, up, outcome,
                  errKind, result >>

\* the S3 upload has sent a part and frees its slot in the queue
UploadPartSent ==
  /\ outcome = "none"
  /\ up = "running"
  /\ parts > 0
  /\ parts' = parts - 1
  /\ UNCHANGED outsideArchiver
  /\ UNCHANGED << sourceUri, targetUri, source, tgt, upArgs, store, pc,
                  listed, objects, files, idx, calls, sst, entryNames,
                  entryFile, encNext, arch, warnings, pt, up, upData, target,
                  outcome, errKind, result >>

\* the stream ended and everything was consumed: pipeline / upload.done()
\* resolves and the object is committed
UploadComplete ==
  /\ outcome = "none"
  /\ up = "running"
  /\ pt = <<>>
  /\ parts = 0
  /\ arch = "ended"
  /\ up' = "done"
  /\ target' = [exists |-> TRUE, entries |-> ChunkNames(upData),
                complete |-> TRUE]
  /\ UNCHANGED outsideArchiver
  /\ UNCHANGED << sourceUri, targetUri, source, tgt, upArgs, parts, store, pc, listed, objects, files, idx, calls, sst,
                  entryNames, entryFile, encNext, arch, warnings, pt, upData,
                  outcome, errKind, result >>

\* the upload fails and uploadObject rejects.  While archiveFiles has not
\* reached `await uploadPromise` the rejection has no handler.
UploadFail ==
  /\ outcome = "none"
  /\ up \in {"starting", "running"}
  /\ up' = "failed"
  /\ IF pc = "awaitUpload"
       THEN Reject(StorageErr(source.scheme))
       ELSE Crash(StorageErr(source.scheme))
  /\ UNCHANGED outsideArchiver
  /\ UNCHANGED << sourceUri, targetUri, source, tgt, upArgs, parts, store, listed, objects, files, idx, calls, sst, entryNames,
                  entryFile, encNext, arch, warnings, pt, upData, target,
                  result >>

\* ------------------------------------------------------------------ tail
\* `await uploadPromise` yields the provider's UploadResult
AwaitUploadOk ==
  /\ outcome = "none"
  /\ pc = "awaitUpload"
  /\ UploadAwaited(up)
  /\ result' = [key |-> upArgs.key, signedUrl |-> FALSE]
  /\ pc' = "getUrl"
  /\ UNCHANGED outsideArchiver
  /\ UNCHANGED << sourceUri, targetUri, source, tgt, upArgs, parts, store, listed, objects, files, idx, calls, sst, entryNames,
                  entryFile, encNext, arch, warnings, pt, up, upData, target,
                  outcome, errKind >>

\* getObjectUrl resolves and archiveFiles returns { ...result, signedUrl }
GetObjectUrlOk ==
  /\ outcome = "none"
  /\ pc = "getUrl"
  /\ source.scheme = "file" => target.exists
  /\ calls' = Append(calls, "getObjectUrl")
  /\ result' = [result EXCEPT !.signedUrl = TRUE]
  /\ outcome' = "returned"
  /\ pc' = "done"
  /\ UNCHANGED outsideArchiver
  /\ UNCHANGED << sourceUri, targetUri, source, tgt, upArgs, parts, store, listed, objects, files, idx, sst, entryNames,
                  entryFile, encNext, arch, warnings, pt, up, upData, target,
                  errKind >>

\* getObjectUrl rejects
GetObjectUrlFail ==
  /\ outcome = "none"
  /\ pc = "getUrl"
  /\ calls' = Append(calls, "getObjectUrl")
  /\ Reject(StorageErr(source.scheme))
  /\ UNCHANGED outsideArchiver
  /\ UNCHANGED << sourceUri, targetUri, source, tgt, upArgs, parts, store, listed, objects, files, idx, sst, entryNames,
                  entryFile, encNext, arch, warnings, pt, up, upData, target,
                  result >>

\* ------------------------------------------------------------------ handler
\* the handler failed before it called archiveFiles: getConfigWithOverrides
\* or createStorageProvider threw
HandlerSetupFail ==
  /\ hpc = "archive"
  /\ pc = "parse"
  /\ outcome = "none"
  /\ hpc' = "done"
  /\ response' = [sent |-> TRUE, success |-> FALSE, fileCount |-> 0]
  /\ UNCHANGED << store, finishedRun >>
  /\ UNCHANGED << uriVars, providerVars, clientVars, configVars, listVars >>

\* archiveFiles threw: the handler's catch returns a failure
HandlerCatch ==
  /\ hpc = "archive"
  /\ outcome = "rejected"
  /\ hpc' = "done"
  /\ response' = [sent |-> TRUE, success |-> FALSE, fileCount |-> 0]
  /\ UNCHANGED << store, finishedRun >>
  /\ UNCHANGED << uriVars, providerVars, clientVars, configVars, listVars >>

\* the objects of the source bucket change after archiveFiles has returned
SourceChanges ==
  /\ hpc = "archive"
  /\ outcome = "returned"
  /\ \E st \in SeqUpTo(KeyUniverse, MaxObjects) :
       /\ st # store
       /\ store' = st
  /\ hpc' = "changed"
  /\ UNCHANGED << response, finishedRun >>
  /\ UNCHANGED << uriVars, providerVars, clientVars, configVars, listVars >>

\* archiver.listObjects(sourceBucket, sourcePrefix) resolves; the handler
\* counts the files of this listing and returns success
HandlerListOk ==
  /\ hpc \in {"archive", "changed"}
  /\ outcome = "returned"
  /\ hpc' = "done"
  /\ response' = [sent |-> TRUE, success |-> TRUE,
                  fileCount |-> Len(FilterFiles(S3ListObjects(store, source.path)))]
  /\ UNCHANGED << store, finishedRun >>
  /\ UNCHANGED << uriVars, providerVars, clientVars, configVars, listVars >>

\* archiver.listObjects rejects: the handler's catch returns a failure
HandlerListFail ==
  /\ hpc \in {"archive", "changed"}
  /\ outcome = "returned"
  /\ hpc' = "done"
  /\ response' = [sent |-> TRUE, success |-> FALSE, fileCount |-> 0]
  /\ UNCHANGED << store, finishedRun >>
  /\ UNCHANGED << uriVars, providerVars, clientVars, configVars, listVars >>

Next ==
  \/ HandlerSetupFail
  \/ HandlerCatch
  \/ SourceChanges
  \/ HandlerListOk
  \/ HandlerListFail
  \/ ParseUris
  \/ ListObjectsOk
  \/ ListObjectsFail
  \/ CreateContainerOk
  \/ CreateContainerFail
  \/ GetObjectStreamOk
  \/ GetObjectStreamFail
  \/ FinalizeCall
  \/ FinalizeResolve
  \/ EncodeEntry
  \/ StreamReadError
  \/ EncoderError
  \/ EncoderWarning
  \/ EncoderFinish
  \/ UploadOpen
  \/ UploadConsume
  \/ UploadPartSent
  \/ UploadComplete
  \/ UploadFail
  \/ AwaitUploadOk
  \/ GetObjectUrlOk
  \/ GetObjectUrlFail

Spec == Init /\ [][Next]_vars

\* the event loop runs a callback or a continuation whenever one is ready
SpecLive == Spec /\ WF_vars(Next)

\* ------------------------------------------------- the URI specification
\* the characters URIs are built from after their scheme
UriChars == {"a", "/"}

\* a scheme the module does not support
GsScheme == <<"g", "s", ":", "/", "/">>

\* the strings given to the URI functions: nothing, s3://, file:// or gs://
\* followed by up to MaxRest characters
UriInputs ==
  { scheme \o rest : scheme \in {<<>>, S3Scheme, FileScheme, GsScheme},
                     rest \in SeqUpTo(UriChars, MaxRest) }

\* archiveFiles has not been called
NoArchive ==
  /\ sourceUri = <<>>
  /\ targetUri = <<>>
  /\ source = ParseError
  /\ tgt = ParseError
  /\ upArgs = NoUpArgs
  /\ parts = 0
  /\ store = <<>>
  /\ pc = "idle"
  /\ listed = FALSE
  /\ objects = <<>>
  /\ files = <<>>
  /\ idx = 1
  /\ calls = <<>>
  /\ sst = <<>>
  /\ entryNames = <<>>
  /\ entryFile = <<>>
  /\ encNext = 1
  /\ arch = "none"
  /\ warnings = 0
  /\ pt = <<>>
  /\ up = "none"
  /\ upData = <<>>
  /\ target = NoTarget
  /\ outcome = "none"
  /\ errKind = "none"
  /\ result = NoResult
  /\ hpc = "off"
  /\ response = NoResponse

InitUri ==
  /\ NoArchive
  /\ ProviderIdle
  /\ ClientIdle
  /\ ConfigIdle
  /\ ListIdle
  /\ uri \in UriInputs
  /\ uriCalled = {}
  /\ parsedUri = ParseError
  /\ directory = Thrown
  /\ filename = Thrown
  /\ segments = <<>>
  /\ joined = Thrown

\* parseUri(uri)
CallParseUri ==
  /\ "parseUri" \notin uriCalled
  /\ uriCalled' = uriCalled \cup {"parseUri"}
  /\ parsedUri' = ParseUri(uri)
  /\ UNCHANGED << uri, directory, filename, segments, joined >>
  /\ UNCHANGED outsideUri

\* getUriDirectory(uri)
CallGetUriDirectory ==
  /\ "getUriDirectory" \notin uriCalled
  /\ uriCalled' = uriCalled \cup {"getUriDirectory"}
  /\ directory' = GetUriDirectory(uri)
  /\ UNCHANGED << uri, parsedUri, filename, segments, joined >>
  /\ UNCHANGED outsideUri

\* getUriFilename(uri)
CallGetUriFilename ==
  /\ "getUriFilename" \notin uriCalled
  /\ uriCalled' = uriCalled \cup {"getUriFilename"}
  /\ filename' = GetUriFilename(uri)
  /\ UNCHANGED << uri, parsedUri, directory, segments, joined >>
  /\ UNCHANGED outsideUri

\* the path segments given to joinUri: '', a, /a and a/
SegmentUniverse == { <<>>, <<"a">>, <<"/", "a">>, <<"a", "/">> }

\* joinUri(uri, ...paths)
CallJoinUri ==
  /\ "joinUri" \notin uriCalled
  /\ \E paths \in SeqUpTo(SegmentUniverse, MaxSegments) :
       /\ segments' = paths
       /\ joined' = JoinUri(uri, paths)
  /\ uriCalled' = uriCalled \cup {"joinUri"}
  /\ UNCHANGED << uri, parsedUri, directory, filename >>
  /\ UNCHANGED outsideUri

NextUri ==
  \/ CallParseUri
  \/ CallGetUriDirectory
  \/ CallGetUriFilename
  \/ CallJoinUri

SpecUri == InitUri /\ [][NextUri]_vars

\* -------------------------------------------- the provider specification
\* what the backend does with a request: it succeeds, reports that the
\* object or path does not exist, or fails otherwise
BackendOutcomes == {"ok", "notFound", "error"}

\* the error the backend raises
BackendError(o) ==
  [notFound |-> o = "notFound", message |-> "backend message"]

\* the method resolves with v
Resolved(v) == [kind |-> "value", value |-> v, message |-> <<>>]

\* throw new <kind>(`${prefix}: ${error.message}`)
Wrapped(kind, prefix, message) ==
  [kind |-> kind, value |-> "none", message |-> <<prefix>> \o message]

\* throw error
Rethrown(err) == [kind |-> "raw", value |-> "none", message |-> <<err.message>>]

\* the methods of S3StorageProvider
S3Call(method, o) ==
  LET err == BackendError(o)
      wrap(prefix) == Wrapped("S3OperationError", prefix, <<err.message>>)
  IN CASE method = "listObjects" ->
            IF o = "ok" THEN Resolved("objects") ELSE wrap("Failed to list objects")
       [] method = "getObjectStream" ->
            IF o = "ok" THEN Resolved("stream")
            ELSE IF o = "noBody"
              THEN Wrapped("S3OperationError", "Failed to fetch",
                           <<"No body in response">>)
            ELSE wrap("Failed to fetch")
       [] method = "uploadObject" ->
            IF o = "ok" THEN Resolved("uploadResult") ELSE wrap("Upload failed")
       [] method = "deleteObject" ->
            IF o = "ok" THEN Resolved("void") ELSE wrap("Failed to delete")
       [] method = "objectExists" ->
            IF o = "ok" THEN Resolved("true")
            ELSE IF err.notFound THEN Resolved("false")
            ELSE Rethrown(err)
       [] method = "getObjectUrl" ->
            IF o = "ok" THEN Resolved("url") ELSE wrap("Failed to generate signed URL")
       [] method = "createContainer" -> Resolved("void")

\* FilesystemStorageProvider.objectExists
FsObjectExists(o) ==
  LET err == BackendError(o)
  IN IF o = "ok" THEN Resolved("true")
     ELSE IF err.notFound THEN Resolved("false")
     ELSE Rethrown(err)

\* the methods of FilesystemStorageProvider
FsCall(method, o) ==
  LET err == BackendError(o)
      wrap(prefix) == Wrapped("StorageOperationError", prefix, <<err.message>>)
  IN CASE method = "listObjects" ->
            IF o = "ok" \/ err.notFound THEN Resolved("objects")
            ELSE wrap("Failed to list objects")
       [] method = "getObjectStream" ->
            IF o = "ok" THEN Resolved("stream")
            ELSE IF err.notFound
              THEN Wrapped("StorageOperationError", "File not found", <<>>)
            ELSE wrap("Failed to fetch")
       [] method = "uploadObject" ->
            IF o = "ok" THEN Resolved("uploadResult") ELSE wrap("Upload failed")
       [] method = "deleteObject" ->
            IF o = "ok" \/ err.notFound THEN Resolved("void")
            ELSE wrap("Failed to delete")
       [] method = "objectExists" -> FsObjectExists(o)
       [] method = "getObjectUrl" ->
            LET exists == FsObjectExists(o)
            IN IF exists.kind = "raw"
                 THEN Wrapped("StorageOperationError", "Failed to get URL for",
                              exists.message)
               ELSE IF exists.value = "false"
                 THEN Wrapped("StorageOperationError", "Failed to get URL for",
                              <<"File not found">>)
               ELSE Resolved("url")
       [] method = "createContainer" ->
            IF o = "ok" THEN Resolved("void") ELSE wrap("Failed to create container")

InitProvider ==
  /\ NoArchive
  /\ UriIdle
  /\ ClientIdle
  /\ ConfigIdle
  /\ ListIdle
  /\ provider \in {"s3", "file"}
  /\ provLog = <<>>

\* one call of a provider method whose backend request ends with outcome o
CallMethod(method, o) ==
  /\ Len(provLog) < MaxCalls
  /\ provLog' = Append(provLog,
       [method |-> method, backend |-> o,
        result |-> IF provider = "s3" THEN S3Call(method, o)
                   ELSE FsCall(method, o)])
  /\ UNCHANGED provider
  /\ UNCHANGED outsideProvider

CallListObjects == \E o \in BackendOutcomes : CallMethod("listObjects", o)

\* an s3 GetObject response may also come without a Body
CallGetObjectStream ==
  \E o \in BackendOutcomes \cup {"noBody"} :
    /\ o = "noBody" => provider = "s3"
    /\ CallMethod("getObjectStream", o)

CallUploadObject == \E o \in BackendOutcomes : CallMethod("uploadObject", o)

CallDeleteObject == \E o \in BackendOutcomes : CallMethod("deleteObject", o)

CallObjectExists == \E o \in BackendOutcomes : CallMethod("objectExists", o)

CallGetObjectUrl == \E o \in BackendOutcomes : CallMethod("getObjectUrl", o)

\* the s3 createContainer sends no request to the backend
CallCreateContainer ==
  \E o \in BackendOutcomes :
    /\ provider = "s3" => o = "ok"
    /\ CallMethod("createContainer", o)

NextProvider ==
  \/ CallListObjects
  \/ CallGetObjectStream
  \/ CallUploadObject
  \/ CallDeleteObject
  \/ CallObjectExists
  \/ CallGetObjectUrl
  \/ CallCreateContainer

SpecProvider == InitProvider /\ [][NextProvider]_vars

\* ---------------------------------------------- the client specification
\* the aws configurations getS3Client is called with
AwsConfigs == {"us-east-1", "eu-west-1"}

InitClient ==
  /\ NoArchive
  /\ UriIdle
  /\ ProviderIdle
  /\ ClientIdle
  /\ ConfigIdle
  /\ ListIdle

\* variant: a client is created on every call
AlwaysCreates(instance) == TRUE

\* getS3Client: if (!s3ClientInstance)
MustCreate(instance) == instance = 0

\* getS3Client(config)
GetS3Client ==
  /\ Len(clientLog) < MaxClientCalls
  /\ \E config \in AwsConfigs :
       /\ IF MustCreate(s3ClientInstance)
            THEN /\ clients' = Append(clients, [config |-> config, destroyed |-> FALSE])
                 /\ s3ClientInstance' = Len(clients) + 1
            ELSE UNCHANGED << clients, s3ClientInstance >>
       /\ clientLog' = Append(clientLog,
            [op |-> "getS3Client", config |-> config, client |-> s3ClientInstance'])
  /\ UNCHANGED outsideClient

\* resetS3Client()
ResetS3Client ==
  /\ Len(clientLog) < MaxClientCalls
  /\ IF s3ClientInstance # 0
       THEN /\ clients' = [clients EXCEPT ![s3ClientInstance].destroyed = TRUE]
            /\ s3ClientInstance' = 0
       ELSE UNCHANGED << clients, s3ClientInstance >>
  /\ clientLog' = Append(clientLog,
       [op |-> "resetS3Client", config |-> "none", client |-> 0])
  /\ UNCHANGED outsideClient

NextClient ==
  \/ GetS3Client
  \/ ResetS3Client

SpecClient == InitClient /\ [][NextClient]_vars

\* --------------------------------------- the configuration specification
\* an environment variable that is not set
Unset == [set |-> FALSE, v |-> <<>>]

\* an environment variable set to the string v (a sequence of characters)
SetTo(v) == [set |-> TRUE, v |-> v]

\* the characters of a decimal digit, by value
DigitChars == <<"0", "1", "2", "3", "4", "5", "6", "7", "8", "9">>

IsDigit(c) == \E d \in 1..10 : DigitChars[d] = c

DigitValue(c) == (CHOOSE d \in 1..10 : DigitChars[d] = c) - 1

RECURSIVE LeadingDigits(_, _)
\* the value of the digits s starts with, after the value acc
LeadingDigits(s, acc) ==
  IF s = <<>> \/ ~IsDigit(s[1]) THEN acc
  ELSE LeadingDigits(Tail(s), 10 * acc + DigitValue(s[1]))

\* Number.parseInt(val, 10): an optional sign, then digits; NaN without digits
ParseInt(val) ==
  LET signed == val # <<>> /\ val[1] \in {"-", "+"}
      digits == IF signed THEN Tail(val) ELSE val
  IN IF digits = <<>> \/ ~IsDigit(digits[1]) THEN [nan |-> TRUE, n |-> 0]
     ELSE [nan |-> FALSE,
           n |-> IF signed /\ val[1] = "-" THEN 0 - LeadingDigits(digits, 0)
                 ELSE LeadingDigits(digits, 0)]

\* z.string().default(d)
StringOr(x, d) == IF x.set THEN x.v ELSE d

\* z.string().min(1)
RequiredString(x) == x.set /\ x.v # <<>>

\* z.enum(allowed).default(...)
EnumValid(x, allowed) == ~x.set \/ x.v \in allowed

\* z.string().transform(parseInt).pipe(...).default(d): the parsed number
NumberOf(x, d) == ParseInt(StringOr(x, d))

\* variant: no upper limit on the compression level
LevelNotNegative(num) == ~num.nan /\ num.n >= 0

\* z.number().min(0).max(9)
LevelInRange(num) == ~num.nan /\ num.n >= 0 /\ num.n <= 9

\* z.number().positive()
Positive(num) == ~num.nan /\ num.n > 0

\* the defaults of envSchema
DefaultLevel == <<"9">>
DefaultPartSize == <<"5", "2", "4", "2", "8", "8", "0">>
DefaultQueueSize == <<"1">>
DefaultTimeout == <<"3", "6", "0", "0", "0", "0", "0">>
DefaultRegion == <<"us-east-1">>
DefaultProvider == <<"s3">>
DefaultBaseDir == <<"./storage">>

\* envSchema.parse(process.env) succeeds
EnvValid(e) ==
  /\ EnumValid(e.STORAGE_PROVIDER, {<<"s3">>, <<"filesystem">>})
  /\ RequiredString(e.SOURCE_CONTAINER)
  /\ RequiredString(e.TARGET_CONTAINER)
  /\ RequiredString(e.TARGET_KEY)
  /\ LevelInRange(NumberOf(e.COMPRESSION_LEVEL, DefaultLevel))
  /\ Positive(NumberOf(e.UPLOAD_PART_SIZE, DefaultPartSize))
  /\ Positive(NumberOf(e.UPLOAD_QUEUE_SIZE, DefaultQueueSize))
  /\ Positive(NumberOf(e.UPLOAD_TIMEOUT, DefaultTimeout))
  /\ EnumValid(e.NODE_ENV, {<<"development">>, <<"production">>, <<"test">>})

\* a field that is assigned only when its variable is defined
Optional(name, x) == IF x.set THEN name :> x.v ELSE EmptyObject

\* a function threw an error of the class kind
ConfigThrown(kind) == [ok |-> FALSE, kind |-> kind, config |-> EmptyObject]

\* a function returned the configuration c
ConfigReturned(c) == [ok |-> TRUE, kind |-> "none", config |-> c]

\* getConfig
GetConfig(e) ==
  IF ~EnvValid(e) THEN ConfigThrown("ConfigurationError")
  ELSE ConfigReturned(
    [provider |-> [type |-> StringOr(e.STORAGE_PROVIDER, DefaultProvider)],
     aws |-> [region |-> StringOr(e.AWS_REGION, DefaultRegion),
              forcePathStyle |-> StringOr(e.S3_FORCE_PATH_STYLE, <<"false">>) = <<"true">>]
             @@ Optional("endpoint", e.AWS_ENDPOINT_URL)
             @@ Optional("accessKeyId", e.AWS_ACCESS_KEY_ID)
             @@ Optional("secretAccessKey", e.AWS_SECRET_ACCESS_KEY),
     filesystem |-> [baseDir |-> StringOr(e.FILESYSTEM_BASE_DIR, DefaultBaseDir)],
     storage |-> [sourceContainer |-> e.SOURCE_CONTAINER.v,
                  sourcePrefix |-> StringOr(e.SOURCE_PREFIX, <<>>),
                  targetContainer |-> e.TARGET_CONTAINER.v,
                  targetKey |-> e.TARGET_KEY.v],
     compression |-> [level |-> NumberOf(e.COMPRESSION_LEVEL, DefaultLevel).n],
     upload |-> [partSize |-> NumberOf(e.UPLOAD_PART_SIZE, DefaultPartSize).n,
                 queueSize |-> NumberOf(e.UPLOAD_QUEUE_SIZE, DefaultQueueSize).n,
                 timeout |-> NumberOf(e.UPLOAD_TIMEOUT, DefaultTimeout).n]])

\* the sections of EnvironmentConfig
Sections == {"provider", "aws", "filesystem", "storage", "compression", "upload"}

\* overrides.<section>, undefined read as no fields
SectionOf(over, section) ==
  IF section \in DOMAIN over THEN over[section] ELSE EmptyObject

\* variant: a section of the overrides replaces the whole section
SpreadReplaces(base, over) == IF DOMAIN over = {} THEN base ELSE over

\* { ...base, ...over }
Spread(base, over) == over @@ base

\* getConfigWithOverrides
GetConfigWithOverrides(e, over) ==
  LET baseConfig == GetConfig(e)
  IN IF ~baseConfig.ok THEN baseConfig
     ELSE ConfigReturned(
       [section \in Sections |->
          Spread(baseConfig.config[section], SectionOf(over, section))])

\* the environments of the model
EnvUniverse ==
  [STORAGE_PROVIDER : {Unset, SetTo(<<"gcs">>)},
   AWS_REGION : {Unset, SetTo(<<"eu-west-1">>)},
   AWS_ENDPOINT_URL : {Unset, SetTo(<<"http://localhost:9000">>)},
   AWS_ACCESS_KEY_ID : {Unset},
   AWS_SECRET_ACCESS_KEY : {Unset},
   S3_FORCE_PATH_STYLE : {Unset, SetTo(<<"true">>)},
   FILESYSTEM_BASE_DIR : {Unset},
   SOURCE_CONTAINER : {Unset, SetTo(<<>>), SetTo(<<"src">>)},
   SOURCE_PREFIX : {Unset},
   TARGET_CONTAINER : {Unset, SetTo(<<"tgt">>)},
   TARGET_KEY : {SetTo(<<>>), SetTo(<<"out.zip">>)},
   COMPRESSION_LEVEL : {Unset, SetTo(<<"5">>), SetTo(<<"1", "0">>),
                        SetTo(<<"-", "1">>), SetTo(<<"x">>)},
   UPLOAD_PART_SIZE : {Unset, SetTo(<<"0">>), SetTo(<<"7">>)},
   UPLOAD_QUEUE_SIZE : {Unset, SetTo(<<"0">>)},
   UPLOAD_TIMEOUT : {Unset, SetTo(<<"-", "5">>)},
   NODE_ENV : {Unset}]

\* the overrides of the model: each section absent or with some fields
OverrideUniverse ==
  { c @@ st @@ u @@ a :
      c \in {EmptyObject, "compression" :> [level |-> 5]},
      st \in {EmptyObject,
              "storage" :> [sourceContainer |-> <<"o">>],
              "storage" :> [sourceContainer |-> <<"o">>, sourcePrefix |-> <<"p/">>]},
      u \in {EmptyObject, "upload" :> [queueSize |-> 3]},
      a \in {EmptyObject, "aws" :> [endpoint |-> <<"http://minio">>]} }

InitConfig ==
  /\ NoArchive
  /\ UriIdle
  /\ ProviderIdle
  /\ ClientIdle
  /\ ListIdle
  /\ env \in EnvUniverse
  /\ overrides = EmptyObject
  /\ cfgCalled = "none"
  /\ cfgResult = ConfigThrown("none")

\* getConfig()
CallGetConfig ==
  /\ cfgCalled = "none"
  /\ cfgCalled' = "getConfig"
  /\ cfgResult' = GetConfig(env)
  /\ UNCHANGED << env, overrides >>
  /\ UNCHANGED outsideConfig

\* getConfigWithOverrides(overrides)
CallGetConfigWithOverrides ==
  /\ cfgCalled = "none"
  /\ cfgCalled' = "getConfigWithOverrides"
  /\ \E over \in OverrideUniverse :
       /\ overrides' = over
       /\ cfgResult' = GetConfigWithOverrides(env, over)
  /\ UNCHANGED env
  /\ UNCHANGED outsideConfig

NextConfig ==
  \/ CallGetConfig
  \/ CallGetConfigWithOverrides

SpecConfig == InitConfig /\ [][NextConfig]_vars

\* --------------------------------------------- the listing specification
\* the file paths of the model: a, ab, p/a, p/b and z
PathUniverse ==
  { <<"a">>, <<"a", "b">>, <<"p", "/", "a">>, <<"p", "/", "b">>, <<"z">> }

\* the prefixes of the model: '', a, p, p/ and p/a
PrefixUniverse ==
  { <<>>, <<"a">>, <<"p">>, <<"p", "/">>, <<"p", "/", "a">> }

\* the name that follows dir in path: the characters up to the next slash
NameAfter(dir, path) ==
  LET rest == Slice(path, Len(dir))
      slash == IndexOfSlash(rest)
  IN IF slash = -1 THEN rest ELSE SubSeq(rest, 1, slash)

RECURSIVE Distinct(_)
\* s without the repetitions of its elements
Distinct(s) ==
  IF s = <<>> THEN <<>>
  ELSE LET init == Distinct(SubSeq(s, 1, Len(s) - 1))
           last == s[Len(s)]
       IN IF \E i \in 1..Len(init) : init[i] = last THEN init
          ELSE Append(init, last)

\* readdir(dir): the names directly under dir ('' or a path ending in '/')
ReadDir(t, dir) ==
  LET under == SelectSeq(t, LAMBDA f : StartsWith(f, dir) /\ Len(f) > Len(dir))
  IN Distinct([i \in 1..Len(under) |-> NameAfter(dir, under[i])])

\* entry.isFile()
IsFileEntry(t, path) == \E i \in 1..Len(t) : t[i] = path

\* dir is a directory of the container
IsDirectory(t, dir) ==
  dir = <<>> \/ \E i \in 1..Len(t) : StartsWith(t[i], dir) /\ Len(t[i]) > Len(dir)

\* join(containerPath, prefix), relative to the container, as a directory
SearchDir(prefix) ==
  IF prefix = <<>> \/ EndsWithSlash(prefix) THEN prefix ELSE prefix \o <<"/">>

\* if (options?.maxKeys && objects.length >= options.maxKeys)
LimitReached(objs, maxKeys) == maxKeys # 0 /\ Len(objs) >= maxKeys

RECURSIVE ScanEntries(_, _, _, _, _, _)
\* scan(dir): the loop over the entries names of dir, from the objects objs
ScanEntries(t, prefix, maxKeys, dir, names, objs) ==
  IF names = <<>> THEN objs
  ELSE LET fullPath == dir \o names[1]
       IN IF IsFileEntry(t, fullPath)
            THEN IF prefix = <<>> \/ StartsWith(fullPath, prefix)
                   THEN LET pushed == Append(objs, [key |-> fullPath])
                        IN IF LimitReached(pushed, maxKeys) THEN pushed
                           ELSE ScanEntries(t, prefix, maxKeys, dir, Tail(names), pushed)
                   ELSE ScanEntries(t, prefix, maxKeys, dir, Tail(names), objs)
            ELSE LET subdir == fullPath \o <<"/">>
                     inner == ScanEntries(t, prefix, maxKeys, subdir,
                                          ReadDir(t, subdir), objs)
                 IN ScanEntries(t, prefix, maxKeys, dir, Tail(names), inner)

\* FilesystemStorageProvider.listObjects(container, {prefix, maxKeys})
FsListObjectsIn(t, prefix, maxKeys) ==
  LET searchPath == SearchDir(prefix)
  IN IF prefix # <<>> /\ IsFileEntry(t, prefix)
       THEN ListThrown("StorageOperationError")
     ELSE IF ~IsDirectory(t, searchPath) THEN Listed(<<>>)
     ELSE Listed(ScanEntries(t, prefix, maxKeys, searchPath,
                             ReadDir(t, searchPath), <<>>))

\* the smaller of two numbers
Min(a, b) == IF a <= b THEN a ELSE b

\* one ListObjectsV2 response: the first keys with the prefix, at most
\* MaxKeys and at most a page of them
S3Contents(t, prefix, maxKeys) ==
  LET keys == SelectSeq(t, LAMBDA k : StartsWith(k, prefix))
      limit == IF maxKeys = 0 THEN S3PageSize ELSE Min(maxKeys, S3PageSize)
  IN SubSeq(keys, 1, Min(limit, Len(keys)))

\* S3StorageProvider.listObjects(container, {prefix, maxKeys})
S3ListObjectsIn(t, prefix, maxKeys) ==
  LET contents == S3Contents(t, prefix, maxKeys)
  IN Listed([i \in 1..Len(contents) |-> [key |-> contents[i]]])

InitList ==
  /\ NoArchive
  /\ UriIdle
  /\ ProviderIdle
  /\ ClientIdle
  /\ ConfigIdle
  /\ tree \in SeqUpTo(PathUniverse, MaxFiles)
  /\ IsInjective(tree)
  /\ listCall = NoListCall
  /\ listResult = ListThrown("none")

\* FilesystemStorageProvider.listObjects
CallFsListObjects ==
  /\ listCall = NoListCall
  /\ \E prefix \in PrefixUniverse, maxKeys \in 0..MaxMaxKeys :
       /\ listCall' = [provider |-> "file", prefix |-> prefix, maxKeys |-> maxKeys]
       /\ listResult' = FsListObjectsIn(tree, prefix, maxKeys)
  /\ UNCHANGED tree
  /\ UNCHANGED outsideList

\* S3StorageProvider.listObjects
CallS3ListObjects ==
  /\ listCall = NoListCall
  /\ \E prefix \in PrefixUniverse, maxKeys \in 0..MaxMaxKeys :
       /\ listCall' = [provider |-> "s3", prefix |-> prefix, maxKeys |-> maxKeys]
       /\ listResult' = S3ListObjectsIn(tree, prefix, maxKeys)
  /\ UNCHANGED tree
  /\ UNCHANGED outsideList

NextList ==
  \/ CallFsListObjects
  \/ CallS3ListObjects

SpecList == InitList /\ [][NextList]_vars

\* ------------------------------------------------------------------ claims
Keys(objs) == [i \in 1..Len(objs) |-> objs[i].key]

\* a listed key that names a file
IsFileKey(k) == k # <<>> /\ ~EndsWithSlash(k)

\* keys of the listed file objects, in listing order
ListedFileKeys == SelectSeq(Keys(objects), IsFileKey)

\* a is a subsequence of b
RECURSIVE IsSubseq(_, _)
IsSubseq(a, b) ==
  IF a = <<>> THEN TRUE
  ELSE IF b = <<>> THEN FALSE
  ELSE IF Head(a) = Head(b) THEN IsSubseq(Tail(a), Tail(b))
  ELSE IsSubseq(a, Tail(b))

\* elements of s at the positions satisfying keep, in order
RECURSIVE PickSeq(_, _, _)
PickSeq(s, keep, i) ==
  IF i > Len(s) THEN <<>>
  ELSE IF keep[i] THEN <<s[i]>> \o PickSeq(s, keep, i + 1)
  ELSE PickSeq(s, keep, i + 1)

TargetCalls == {"createContainer", "uploadObject", "getObjectUrl"}

CallsMade == { calls[i] : i \in 1..Len(calls) }

\* the run has left the loop over the files
LoopDone == "finalize" \in CallsMade \/ pc = "finalize"

\* C1: when the listing holds no file object (it is empty or every key
\* ends in '/'), archiveFiles fails with ArchiveError and the target is
\* untouched: no createContainer, uploadObject or getObjectUrl call.
C1_NoFilesFailsBeforeTarget ==
  (listed /\ \A i \in 1..Len(objects) : EndsWithSlash(objects[i].key))
    => /\ outcome = "rejected"
       /\ errKind = "ArchiveError"
       /\ CallsMade \cap TargetCalls = {}
       /\ up = "none"
       /\ target = NoTarget

\* a listing of directory markers only was rejected
C1_Witness ==
  /\ listed
  /\ objects # <<>>
  /\ \A i \in 1..Len(objects) : EndsWithSlash(objects[i].key)
  /\ outcome = "rejected"

\* C2: a getObjectStream failure for file N neither ends the run nor the
\* loop: the step that records the failure moves to the next file, and
\* when finalize is reached every listed file was tried and every one
\* that opened was appended.
C2_OpenFailureSkipsOnlyThatFile ==
  /\ [](LoopDone =>
          /\ Len(sst) = Len(ListedFileKeys)
          /\ \A i \in 1..Len(sst) : sst[i] # "unopened"
          /\ entryFile = PickSeq([i \in 1..Len(sst) |-> i],
                                 [i \in 1..Len(sst) |-> sst[i] # "openFailed"],
                                 1))
  /\ [][(\E i \in (DOMAIN sst) \cap (DOMAIN sst') :
            sst[i] # "openFailed" /\ sst'[i] = "openFailed")
          => /\ outcome' = "none"
             /\ idx' = idx + 1
             /\ pc' \in {"loop", "finalize"}]_vars

\* file N failed to open, a later file was opened and appended, and
\* finalize was called
C2_Witness ==
  /\ "finalize" \in CallsMade
  /\ \E n, m \in 1..Len(sst) :
       /\ n < m
       /\ sst[n] = "openFailed"
       /\ sst[m] \in {"open", "consumed"}
       /\ \E j \in 1..Len(entryFile) : entryFile[j] = m

\* C3: an error of an already appended source stream skips that entry and
\* does not end the run.
C3_ReadErrorSkipsEntry ==
  [][(\E i \in (DOMAIN sst) \cap (DOMAIN sst') :
         sst[i] # "errored" /\ sst'[i] = "errored")
       => outcome' = "none"]_vars

\* C4: the names appended to the encoder form a subsequence of the listing,
\* in listing order, and nothing is dropped for being a duplicate: after
\* the loop, appended entries plus failed opens account for every listed
\* file object.
C4_EntriesInListingOrder ==
  /\ IsSubseq(entryNames, Keys(objects))
  /\ LoopDone =>
       Len(entryNames)
         + Cardinality({i \in 1..Len(sst) : sst[i] = "openFailed"})
       = Len(ListedFileKeys)

\* the listing holds one key twice, both opened and both were appended
C4_Witness ==
  /\ Len(objects) >= 2
  /\ objects[1].key = objects[2].key
  /\ Len(entryNames) = 2
  /\ entryNames[1] = entryNames[2]

\* C5: when archiveFiles returns, the object committed at the target holds
\* exactly one entry per listed file that opened and was read, in order,
\* none for a file that failed, and as many entries as appends were made.
C5_ArchiveHoldsSuccessfulFiles ==
  outcome = "returned"
    => /\ target.exists
       /\ target.complete
       /\ Len(sst) = Len(ListedFileKeys)
       /\ target.entries =
            PickSeq(ListedFileKeys,
                    [i \in 1..Len(sst) |-> sst[i] = "consumed"], 1)
       /\ \A i \in 1..Len(sst) : sst[i] \in {"consumed", "openFailed"}
       /\ Len(target.entries)
            = Cardinality({i \in 1..Len(calls) : calls[i] = "append"})

\* a run returned although one file failed to open; the archive holds the
\* other
C5_Witness ==
  /\ outcome = "returned"
  /\ \E i \in 1..Len(sst) : sst[i] = "openFailed"
  /\ Len(target.entries) >= 1

\* C6: every entry is named by the key relative to the listed prefix:
\* prefix \o name = key.
C6_EntryNamedRelativeToPrefix ==
  \A j \in 1..Len(entryNames) :
    SourcePrefix(source) \o entryNames[j] = files[entryFile[j]].key

\* C7: archiveFiles returns a result only if at least one file was
\* appended.
C7_SuccessImpliesAppended ==
  outcome = "returned" => Len(entryNames) >= 1

\* the archive stream reported a failure
EncoderFailed == errKind = "ArchiveError" /\ arch # "none"

\* C8: an encoder error and an upload failure reject the promise of
\* archiveFiles with the error's kind; nothing is raised outside it and no
\* result is returned.
C8_FatalErrorsRejectPromise ==
  (EncoderFailed \/ up = "failed")
    => /\ outcome = "rejected"
       /\ EncoderFailed => errKind = "ArchiveError"
       /\ result.signedUrl = FALSE

\* C9: after a failure with the upload started, the upload is no longer in
\* progress and no partial object exists at the target key.
C9_FailureLeavesNoPartialObject ==
  (outcome \in {"rejected", "crashed"} /\ up # "none")
    => /\ up \notin {"starting", "running"}
       /\ ~(target.exists /\ ~target.complete)

\* C10: when archiveFiles has terminated, no source stream it opened is
\* still open.
C10_StreamsReleasedAtTermination ==
  outcome # "none" => \A i \in 1..Len(sst) : sst[i] # "open"

\* position of the first call c in calls, 0 when there is none
FirstCall(c) ==
  IF c \in CallsMade
    THEN CHOOSE i \in 1..Len(calls) :
           calls[i] = c /\ \A j \in 1..(i - 1) : calls[j] # c
    ELSE 0

\* C11: uploadObject is called before the first getObjectStream and is in
\* progress during ingestion; its promise is awaited only after every
\* listed file was dispatched and finalize was called.
C11_UploadStartedBeforeIngestion ==
  /\ "getObjectStream" \in CallsMade =>
       /\ FirstCall("uploadObject") > 0
       /\ FirstCall("uploadObject") < FirstCall("getObjectStream")
  /\ (outcome = "none" /\ pc \in {"loop", "finalize", "awaitFinalize"}) =>
       up # "none"
  /\ (pc \in {"awaitUpload", "getUrl"} \/ outcome = "returned") =>
       /\ "finalize" \in CallsMade
       /\ \A i \in 1..Len(sst) : sst[i] # "unopened"

\* the upload has consumed archive data while a listed file is not yet
\* opened
C11_Witness ==
  /\ upData # <<>>
  /\ \E i \in 1..Len(sst) : sst[i] = "unopened"

\* calls made by the loop over files whose streams ended in states st
RECURSIVE LoopCalls(_, _)
LoopCalls(st, i) ==
  IF i > Len(st) THEN <<>>
  ELSE (IF st[i] = "openFailed"
          THEN << "getObjectStream" >>
          ELSE << "getObjectStream", "append" >>) \o LoopCalls(st, i + 1)

\* C12: a successful run makes its calls in the order listObjects,
\* createContainer, uploadObject, one getObjectStream/append per file,
\* finalize, getObjectUrl; finalize follows the dispatch of every file,
\* getObjectUrl follows the completion of the upload, and the result has
\* the target key and the access URL.
C12_StepOrderOfSuccessfulRun ==
  /\ outcome = "returned" =>
       /\ calls = << "listObjects", "createContainer", "uploadObject" >>
                    \o LoopCalls(sst, 1)
                    \o << "finalize", "getObjectUrl" >>
       /\ Len(sst) = Len(ListedFileKeys)
       /\ result.key = tgt.path
       /\ result.signedUrl
  /\ "finalize" \in CallsMade =>
       \A i \in 1..Len(sst) : sst[i] # "unopened"
  /\ "getObjectUrl" \in CallsMade => up = "done"

\* a run over two files returned
C12_Witness ==
  /\ outcome = "returned"
  /\ Len(sst) = 2
  /\ \A i \in 1..Len(sst) : sst[i] = "consumed"

\* source streams opened and not yet read to their end
OpenStreams == { i \in 1..Len(sst) : sst[i] = "open" }

\* C13: the number of source streams that are open and not yet consumed
\* never exceeds the concurrency window, the upload queue size.
C13_OpenStreamsBounded ==
  Cardinality(OpenStreams) <= DEFAULT_UPLOAD_QUEUE_SIZE

C15_ResultReportsCounts ==
  outcome = "returned" =>
    /\ {"filesCount", "failedCount"} \subseteq DOMAIN result
    /\ result.filesCount + result.failedCount = Len(ListedFileKeys)

\* URIs of the model that parseUri rejects: '', s3:///k, x
UnparsableUris == { <<>>, S3Scheme \o <<"/", "k">>, <<"x">> }

\* C16: when the source or the target URI does not parse, archiveFiles
\* fails with ConfigurationError and has called no provider operation.
C16_ConfigErrorBeforeSideEffects ==
  (pc # "parse" /\ (sourceUri \in UnparsableUris \/ targetUri \in UnparsableUris))
    => /\ outcome = "rejected"
       /\ errKind = "ConfigurationError"
       /\ calls = <<>>
       /\ up = "none"
       /\ target = NoTarget

\* the source URI parsed, the target URI did not, and the run was rejected
C16_Witness ==
  /\ sourceUri \notin UnparsableUris
  /\ targetUri \in UnparsableUris
  /\ outcome = "rejected"

\* C17 as claimed: the archive is written through the backend of the
\* target URI's scheme, into the container and key of the target URI.
C17_UploadUsesTargetBackend ==
  up # "none" =>
    /\ upArgs.backend = tgt.scheme
    /\ upArgs.key = tgt.path
    /\ tgt.hasBucket => upArgs.container = tgt.bucket

\* C17 as amended: archiveFiles has one provider, that of the source
\* scheme, and uploads through it whatever the target scheme is; the key
\* is the target path and the container is the target bucket for an s3
\* source and '' for a file source.
C17_UploadUsesSourceProvider ==
  up # "none" =>
    /\ upArgs.backend = source.scheme
    /\ upArgs.key = tgt.path
    /\ source.scheme = "s3" => upArgs.container = tgt.bucket
    /\ source.scheme = "file" => upArgs.container = <<>>

\* an upload was started for a target of the other scheme
C17_Witness ==
  /\ up # "none"
  /\ source.scheme = "file"
  /\ tgt.scheme = "s3"
  /\ upArgs.backend = "file"

\* the characters of s
Chars(s) == { s[i] : i \in 1..Len(s) }

\* uri names neither of the schemes s3:// and file://
UnsupportedScheme(u) == ~StartsWith(u, S3Scheme) /\ ~StartsWith(u, FileScheme)

\* uri is an s3 URI without a bucket segment: s3:// alone, or s3:///...
S3WithoutBucket(u) == u = S3Scheme \/ StartsWith(u, S3Scheme \o <<"/">>)

\* C18: parseUri throws ConfigurationError for the empty string, for an
\* unsupported scheme and for an s3 URI without a bucket segment, and
\* never returns scheme s3 with an empty bucket.
C18_ParseUriRejectsInvalid ==
  "parseUri" \in uriCalled =>
    /\ (uri = <<>> \/ UnsupportedScheme(uri) \/ S3WithoutBucket(uri))
         => ~parsedUri.ok
    /\ ~(parsedUri.ok /\ parsedUri.scheme = "s3" /\ parsedUri.bucket = <<>>)

\* C19: s3://B/P with B non-empty and free of '/' parses to scheme s3,
\* bucket B, path P (path '' for s3://B); file://P with P non-empty parses
\* to scheme file, no bucket, path P verbatim; fullPath is the input.
C19_ParseUriSplitsBucketAndPath ==
  "parseUri" \in uriCalled =>
    /\ \A B \in SeqUpTo(UriChars, MaxRest) :
         (B # <<>> /\ "/" \notin Chars(B)
            /\ (uri = S3Scheme \o B \/ StartsWith(uri, S3Scheme \o B \o <<"/">>)))
           => /\ parsedUri.ok
              /\ parsedUri.scheme = "s3"
              /\ parsedUri.hasBucket
              /\ parsedUri.bucket = B
              /\ uri = S3Scheme \o B => parsedUri.path = <<>>
              /\ uri # S3Scheme \o B =>
                   S3Scheme \o B \o <<"/">> \o parsedUri.path = uri
    /\ StartsWith(uri, FileScheme) /\ Len(uri) > Len(FileScheme)
         => /\ parsedUri.ok
            /\ parsedUri.scheme = "file"
            /\ ~parsedUri.hasBucket
            /\ FileScheme \o parsedUri.path = uri
    /\ parsedUri.ok => parsedUri.fullPath = uri

\* s3://a/a/ has been parsed: bucket a, path a/
C19_Witness ==
  /\ "parseUri" \in uriCalled
  /\ uri = S3Scheme \o <<"a", "/", "a", "/">>
  /\ parsedUri.path = <<"a", "/">>

\* C20: for a URI parseUri accepts, getUriDirectory followed by
\* getUriFilename is the parsed path, the directory is empty or ends in
\* '/', and the filename holds no '/'.
C20_DirectoryPlusFilenameIsPath ==
  ({"parseUri", "getUriDirectory", "getUriFilename"} \subseteq uriCalled
     /\ parsedUri.ok)
    => /\ directory.ok
       /\ filename.ok
       /\ directory.value \o filename.value = parsedUri.path
       /\ directory.value = <<>> \/ EndsWithSlash(directory.value)
       /\ "/" \notin Chars(filename.value)

\* file://a/a has been taken apart: directory a/, filename a
C20_Witness ==
  /\ {"parseUri", "getUriDirectory", "getUriFilename"} \subseteq uriCalled
  /\ uri = FileScheme \o <<"a", "/", "a">>
  /\ directory.value = <<"a", "/">>
  /\ filename.value = <<"a">>

\* s holds two slashes in a row
HasDoubleSlash(s) == \E i \in 1..(Len(s) - 1) : s[i] = "/" /\ s[i + 1] = "/"

\* the result of joinUri(uri, ...segments) as the claim describes it
JoinedAsClaimed ==
  LET base == ParseUri(uri)
      r == ParseUri(joined.value)
  IN /\ joined.ok
     /\ r.ok
     /\ r.scheme = base.scheme
     /\ r.hasBucket = base.hasBucket
     /\ r.bucket = base.bucket
     /\ r.path = CollapseSlashes(JoinWithSlash(FilterBoolean(<<base.path>> \o segments)))
     /\ ~HasDoubleSlash(r.path)
     /\ (base.scheme = "s3" /\ r.path # <<>> /\ r.path[1] = "/")
          => LET given == FilterBoolean(<<base.path>> \o segments)
             IN given # <<>> /\ given[1][1] = "/"

\* C21: for a base URI that parses and any segments, joinUri returns a URI
\* that parses to the scheme and container of the base, with the base path
\* and the non-empty segments joined by single slashes as its path.
C21_JoinUriKeepsSchemeAndContainer ==
  ("joinUri" \in uriCalled /\ ParseUri(uri).ok) => JoinedAsClaimed

\* the same for the bases whose bucket is not empty
C21_HoldsForNamedBuckets ==
  ("joinUri" \in uriCalled /\ ParseUri(uri).ok
     /\ (ParseUri(uri).scheme = "s3" => ParseUri(uri).bucket # <<>>))
    => JoinedAsClaimed

\* the strings of s
Strings(s) == { s[i] : i \in 1..Len(s) }

\* C22: a backend failure other than not-found leaves every provider
\* method with the provider's declared error kind and the backend's
\* message in it; objectExists resolves false exactly on not-found; no
\* method throws the raw backend error.
C22_BackendErrorsAreWrapped ==
  \A i \in 1..Len(provLog) :
    LET c == provLog[i]
    IN /\ c.result.kind # "raw"
       /\ c.backend = "error" =>
            /\ c.result.kind = StorageErr(provider)
            /\ "backend message" \in Strings(c.result.message)
       /\ c.method = "objectExists" =>
            (c.result = Resolved("false") <=> c.backend = "notFound")

\* positions of the log where getS3Client was called
Gets == { i \in 1..Len(clientLog) : clientLog[i].op = "getS3Client" }

\* positions of the log where resetS3Client was called
Resets == { i \in 1..Len(clientLog) : clientLog[i].op = "resetS3Client" }

\* C23: two getS3Client calls with no reset between them return the same
\* instance; a getS3Client after a reset returns an instance different
\* from every one returned before that reset; resetS3Client destroys the
\* current instance and changes nothing when there is none.
C23_ClientIsSingletonUntilReset ==
  /\ [](/\ \A i \in Gets, j \in Gets :
             (i < j /\ ~\E r \in Resets : i < r /\ r < j)
               => clientLog[i].client = clientLog[j].client
        /\ \A i \in Gets, j \in Gets :
             (\E r \in Resets : i < r /\ r < j)
               => clientLog[i].client # clientLog[j].client
        /\ \A i \in Gets, r \in Resets :
             i < r => clients[clientLog[i].client].destroyed
        /\ \A i \in Gets : clientLog[i].client \in 1..Len(clients)
        /\ s3ClientInstance # 0 => ~clients[s3ClientInstance].destroyed)
  /\ [][(Len(clientLog') > Len(clientLog)
          /\ clientLog'[Len(clientLog')].op = "resetS3Client")
         => /\ s3ClientInstance' = 0
            /\ s3ClientInstance = 0 => clients' = clients
            /\ s3ClientInstance # 0 =>
                 /\ clients'[s3ClientInstance].destroyed
                 /\ \A c \in 1..Len(clients) :
                      c # s3ClientInstance => clients'[c] = clients[c]]_vars

\* get, get, reset, get: the first two calls returned client 1, the last
\* returned client 2
C23_Witness ==
  /\ Len(clientLog) = 4
  /\ clientLog[1].client = 1
  /\ clientLog[2].client = 1
  /\ clientLog[3].op = "resetS3Client"
  /\ clientLog[4].client = 2
  /\ clients[1].destroyed

LevelsOutOfRange == { <<"1", "0">>, <<"-", "1">> }
SizesOutOfRange == { <<"0">>, <<"-", "5">> }

\* a required variable is missing or empty, or a numeric one out of range
EnvRejectedByClaim ==
  \/ \E name \in {"SOURCE_CONTAINER", "TARGET_CONTAINER", "TARGET_KEY"} :
       ~env[name].set \/ env[name].v = <<>>
  \/ env.COMPRESSION_LEVEL.set /\ env.COMPRESSION_LEVEL.v \in LevelsOutOfRange
  \/ \E name \in {"UPLOAD_PART_SIZE", "UPLOAD_QUEUE_SIZE", "UPLOAD_TIMEOUT"} :
       env[name].set /\ env[name].v \in SizesOutOfRange

C26_ArchiveFilesTerminates == <>(outcome \in {"returned", "rejected"})

\* every run ends, with archiveFiles returning or throwing or with the
\* process ended by an exception outside archiveFiles' promise
C26_RunEnds == <>(outcome # "none")

\* the keys listObjects returned
ListedKeys == { listResult.objects[i].key : i \in 1..Len(listResult.objects) }

\* the files of the container whose key starts with the prefix of the call
KeysWithPrefix ==
  { tree[i] : i \in { j \in 1..Len(tree) : StartsWith(tree[j], listCall.prefix) } }

\* C27: the filesystem listObjects(container, {prefix}) returns exactly
\* the files whose key starts with the prefix, for every prefix.
C27_FsPrefixIsKeyFilter ==
  (listCall.provider = "file" /\ listCall.maxKeys = 0)
    => listResult.ok /\ ListedKeys = KeysWithPrefix

\* C28: the filesystem listObjects(container, {maxKeys}) with maxKeys >= 1
\* returns at most maxKeys objects.
C28_FsMaxKeysBoundsResult ==
  (listCall.provider = "file" /\ listCall.maxKeys >= 1 /\ listResult.ok)
    => Len(listResult.objects) <= listCall.maxKeys

\* C29: the s3 listObjects(container, {prefix}) without maxKeys returns
\* every object of the bucket whose key starts with the prefix.
C29_S3ListsEveryObject ==
  (listCall.provider = "s3" /\ listCall.maxKeys = 0)
    => listResult.ok /\ ListedKeys = KeysWithPrefix

\* C30: when the handler returns success, the fileCount of its response
\* is the number of entries appended to the archive of this run.
C30_FileCountIsEntriesArchived ==
  (response.sent /\ response.success) => response.fileCount = Len(entryNames)

====
